---- MODULE Spec2Model ----
(***************************************************************************)
(* A model of the bloxel renderer (src/src/renderer.rs, src/src/main.rs):  *)
(* swap chain negotiation (HalState::create_swapchain), the renderer state *)
(* (HalState), the per-frame protocol (draw_clear_frame,                   *)
(* draw_triangle_frame), swap chain recreation, teardown (Drop) and the    *)
(* main loop, together with the GPU queue and the presentation engine the  *)
(* renderer talks to.                                                      *)
(***************************************************************************)
EXTENDS Integers, Sequences, FiniteSets, TLC

VARIABLES
    surface,      \* what the surface, the window and the device report now
    swap_result,  \* the outcome of the last create_swapchain call
    hal,          \* the fields of HalState
    gpu,          \* fences, semaphores, swap chain images, queue, presents
    res,          \* GPU handles: live (and in which order they were created),
                  \* destroyed, destroyed more than once
    pc,           \* where main (and the call it is in) stands
    frame,        \* the indices the current draw call has used so far
    errors,       \* how many draw calls the backend has failed (an Err that
                  \* main.rs:36 logs, or a fence wait that timed out)
    variant,      \* which draw call the loop makes
    inputs        \* what the poll of the current loop iteration reported

vars == <<surface, swap_result, hal, gpu, res, pc, frame, errors, variant, inputs>>

\* ------------------------------------------------------------------ bounds

\* Largest image-count capability (caps.image_count.end) a surface reports
\* to a negotiation.
MaxCap == 4
\* Largest extent coordinate (pixels) a surface or a window reports.
MaxDim == 2
\* Largest number of swap chain images in the render loop.
MaxImages == 2
\* Largest number of draw calls that return Err in one run of the render loop.
MaxErrors == 1

\* ------------------------------------------------------------- arithmetic

Min(a, b) == IF a <= b THEN a ELSE b

Max(a, b) == IF a >= b THEN a ELSE b

\* `end - 1` on u32 underflows exactly when end = 0: a debug build panics
\* there and a release build wraps to u32::MAX.
SubUnderflows(a, b) == b > a

\* (end - 1).min(x) on u32 in a release build.  When the subtraction wraps,
\* its value is u32::MAX, which is at least every u32, so the minimum is x.
EndMinusOneMin(end, x) == IF SubUnderflows(end, 1) THEN x ELSE Min(end - 1, x)

\* `x as u32` of a non-negative f64 window coordinate: truncation toward
\* zero (the saturation at u32::MAX is out of reach of the window sizes
\* modelled).  Window coordinates are carried in half pixels, so 2*k and
\* 2*k+1 both convert to k.
AsU32(halves) == halves \div 2

\* ---------------------------------------------------- swap chain negotiation

PresentModes == {"Mailbox", "Fifo", "Relaxed", "Immediate"}

\* renderer.rs:343, the order in which present modes are tried.
PresentModePreference == <<"Mailbox", "Fifo", "Relaxed", "Immediate">>

CompositeAlphas == {"OPAQUE", "INHERIT", "PREMULTIPLIED", "POSTMULTIPLIED"}

\* renderer.rs:352-357, the order in which composite-alpha modes are tried.
CompositeAlphaPreference == <<"OPAQUE", "INHERIT", "PREMULTIPLIED", "POSTMULTIPLIED">>

NONE == "None"

\* Iterator::find over a preference array: the first entry that the
\* supported set contains, or None.
FindFirst(preference, supported) ==
    LET hits == {i \in 1..Len(preference) : preference[i] \in supported}
    IN  IF hits = {} THEN NONE
        ELSE preference[CHOOSE i \in hits : \A j \in hits : i <= j]

\* A selector that tries Fifo before Mailbox.
ChoosePresentMode_FifoFirst(present_modes) ==
    FindFirst(<<"Fifo", "Mailbox", "Relaxed", "Immediate">>, present_modes)

\* renderer.rs:341-349.
ChoosePresentMode(present_modes) == FindFirst(PresentModePreference, present_modes)

ChooseCompositeAlpha(composite_alpha) == FindFirst(CompositeAlphaPreference, composite_alpha)

Formats == {"Rgba8Srgb", "Bgra8Srgb", "Rgba8Unorm", "Bgra8Unorm"}

\* format.base_format().1 == ChannelType::Srgb
IsSrgb(format) == format \in {"Rgba8Srgb", "Bgra8Srgb"}

\* A selector that takes the first listed format whether it is sRGB or not.
ChooseFormat_FirstListed(preferred_formats) ==
    IF ~preferred_formats.some THEN "Rgba8Srgb"
    ELSE IF Len(preferred_formats.list) > 0 THEN preferred_formats.list[1]
    ELSE NONE

\* renderer.rs:364-378.  preferred_formats is [some |-> FALSE, list |-> <<>>]
\* (None: the surface has no preference) or [some |-> TRUE, list |-> the
\* formats it lists].
ChooseFormat(preferred_formats) ==
    IF ~preferred_formats.some THEN "Rgba8Srgb"
    ELSE LET formats == preferred_formats.list
             hits == {i \in 1..Len(formats) : IsSrgb(formats[i])}
         IN  IF hits # {} THEN formats[CHOOSE i \in hits : \A j \in hits : i <= j]
             ELSE IF Len(formats) > 0 THEN formats[1]
             ELSE NONE

\* renderer.rs:385-392: each coordinate is the surface's maximum extent
\* (caps.extents.end) min the window's client area cast to u32.
ChooseExtent(extents, window_client_area) ==
    [width  |-> Min(extents.end.width, AsU32(window_client_area.width)),
     height |-> Min(extents.end.height, AsU32(window_client_area.height))]

\* An image count that asks for 2 images whatever the present mode.
ChooseImageCount_AlwaysTwo(present_mode, image_count) ==
    EndMinusOneMin(image_count.end, Max(image_count.start, 2))

\* renderer.rs:394-398.
ChooseImageCount(present_mode, image_count) ==
    IF present_mode = "Mailbox"
    THEN EndMinusOneMin(image_count.end, Max(image_count.start, 3))
    ELSE EndMinusOneMin(image_count.end, Max(image_count.start, 2))

\* HalState::create_swapchain on a surface `s` (what surface.compatibility
\* and the window report, and whether the device accepts the configuration).
\* The result is either a panic (an unwrap of an Err, with its message) or
\* the configuration of the chain that was created; the checks are made in
\* the order of the source.
create_swapchain(s) ==
    LET present_mode    == ChoosePresentMode(s.present_modes)
        composite_alpha == ChooseCompositeAlpha(s.composite_alpha)
        format          == ChooseFormat(s.preferred_formats)
        extent          == ChooseExtent(s.extents, s.window)
        image_count     == ChooseImageCount(present_mode, s.image_count)
        Panic(msg, atDevice) == [ok |-> FALSE, error |-> msg, at_device |-> atDevice]
    IN  IF present_mode = NONE THEN Panic("No PresentMode values specified!", FALSE)
        ELSE IF composite_alpha = NONE THEN Panic("No CompositeAlpha values specified!", FALSE)
        ELSE IF format = NONE THEN Panic("Preferred format list was empty!", FALSE)
        ELSE IF ~s.window_exists THEN Panic("Window doesn't exist!", FALSE)
        ELSE IF ~s.usage_color THEN Panic("The Surface isn't capable of supporting color!", FALSE)
        ELSE IF ~s.device_accepts THEN Panic("Failed to create the swapchain!", TRUE)
        ELSE [ok |-> TRUE, error |-> NONE, present_mode |-> present_mode,
              composite_alpha |-> composite_alpha, format |-> format,
              extent |-> extent, image_count |-> image_count]

\* ------------------------------------------------------------ environments

Ranges(hi) == {[start |-> a, end |-> b] : a \in 1..hi, b \in 1..hi} 

ImageCountRanges == {r \in Ranges(MaxCap) : r.start <= r.end}

Extents == {[width |-> w, height |-> h] : w \in 1..MaxDim, h \in 1..MaxDim}

ExtentRanges ==
    {[start |-> a, end |-> b] : a \in Extents, b \in Extents} 

\* Window client areas, in half pixels.
WindowAreas ==
    {[width |-> w, height |-> h] : w \in 2..(2 * MaxDim + 3), h \in 2..(2 * MaxDim + 3)}

FormatLists ==
    {[some |-> FALSE, list |-> <<>>], [some |-> TRUE, list |-> <<>>]}
    \cup {[some |-> TRUE, list |-> <<f>>] : f \in Formats}
    \cup {[some |-> TRUE, list |-> <<f, g>>] : f \in Formats, g \in Formats}

\* A surface every negotiation step accepts.
BaseSurface ==
    [image_count       |-> [start |-> 2, end |-> 3],
     present_modes     |-> {"Fifo"},
     composite_alpha   |-> {"OPAQUE"},
     preferred_formats |-> [some |-> FALSE, list |-> <<>>],
     extents           |-> [start |-> [width |-> 1, height |-> 1],
                            end   |-> [width |-> MaxDim, height |-> MaxDim]],
     window            |-> [width |-> 2, height |-> 2],
     window_exists     |-> TRUE,
     usage_color       |-> TRUE,
     device_accepts    |-> TRUE]

\* The surfaces a negotiation is tried on: the base surface with one group
\* of its reports varied at a time (create_swapchain computes each part of
\* the configuration from its own group).
Surfaces ==
    {[BaseSurface EXCEPT !.image_count = r, !.present_modes = m] :
        r \in ImageCountRanges, m \in SUBSET PresentModes}
    \cup
    {[BaseSurface EXCEPT !.extents = e, !.window = w] :
        e \in {x \in ExtentRanges : /\ x.start.width <= x.end.width
                                     /\ x.start.height <= x.end.height},
        w \in WindowAreas}
    \cup
    {[BaseSurface EXCEPT !.preferred_formats = f, !.composite_alpha = a,
                         !.window_exists = we, !.usage_color = u,
                         !.device_accepts = d] :
        f \in FormatLists, a \in SUBSET CompositeAlphas,
        we \in BOOLEAN, u \in BOOLEAN, d \in BOOLEAN}

NoResult == [ok |-> FALSE, error |-> "not called", at_device |-> FALSE]

\* ------------------------------------------ specification: one negotiation

\* What UserInput::poll_events_loop can report (main.rs:110-132): a close
\* request, a resize, both or neither; the cursor position is left out.
UserInputs == [end_requested : BOOLEAN, new_frame_size : BOOLEAN]

\* The iteration's `inputs`, and whether local_state.update_from_input has
\* been called with them (main.rs:28); between iterations there is none.
NoInputs == [end_requested |-> FALSE, new_frame_size |-> FALSE, updated |-> FALSE]

\* main.rs:23-28: the poll returns i; unless it reports a close request,
\* local_state is updated from it.
Polled(i) ==
    [end_requested |-> i.end_requested, new_frame_size |-> i.new_frame_size,
     updated |-> ~i.end_requested]

NoHal == [current_frame |-> 0, frames_in_flight |-> 0]

InitSwapchain ==
    /\ surface \in Surfaces
    /\ swap_result = NoResult
    /\ hal = NoHal
    /\ gpu = <<>>
    /\ res = <<>>
    /\ pc = "negotiate"
    /\ frame = <<>>
    /\ errors = 0
    /\ variant = "none"
    /\ inputs = NoInputs

\* One call of HalState::create_swapchain on the surface.
Negotiate ==
    /\ pc = "negotiate"
    /\ swap_result' = create_swapchain(surface)
    /\ pc' = "negotiated"
    /\ UNCHANGED <<surface, hal, gpu, res, frame, errors, variant, inputs>>

NextNegotiation == Negotiate

SpecSwapchain == InitSwapchain /\ [][NextNegotiation]_vars

\* ------------------------------------------------------------- GPU handles

\* A handle is <<kind, index>>, the index being the place in its Vec.  The
\* backend hands out the index of a destroyed handle again.
Handle(kind, i) == <<kind, i>>

HandlesOf(kind, n) == {Handle(kind, i) : i \in 0..(n - 1)}

SeqOf(kind, n) == [i \in 1..n |-> Handle(kind, i - 1)]

Range(seq) == {seq[i] : i \in 1..Len(seq)}

\* device.destroy_* on the handles hs: a live handle becomes destroyed, a
\* handle that is no longer live is destroyed a second time.
Destroy(r, hs) ==
    [live   |-> r.live \ hs,
     freed  |-> r.freed \cup (hs \cap r.live),
     twice  |-> r.twice \cup (hs \ r.live),
     order  |-> SelectSeq(r.order, LAMBDA h : h \notin hs)]

\* device.create_* of the handles of the sequence hs, in that order.
Create(r, hs) ==
    [r EXCEPT !.live = @ \cup Range(hs), !.freed = @ \ Range(hs), !.order = @ \o hs]

\* The surfaces the render loop runs on: image-count ranges that give every
\* image count up to MaxImages, and surfaces on which the negotiation or the
\* device call fails.
LoopSurfaces ==
    {[BaseSurface EXCEPT !.image_count = [start |-> a, end |-> a + 1]] : a \in 1..MaxImages}
    \cup {[BaseSurface EXCEPT !.present_modes = {}],
          [BaseSurface EXCEPT !.device_accepts = FALSE]}

\* ------------------------------------------------------- HalState::new

Ring(n, v) == [i \in 0..(n - 1) |-> v]

NoFrame ==
    [image_available |-> -1, render_finished |-> -1, acquire_signal |-> -1,
     image |-> -1, fence_wait |-> -1, fence_reset |-> -1, command_buffer |-> -1,
     framebuffer |-> -1, submit_wait |-> -1, submit_signal |-> -1,
     submit_fence |-> -1, present_image |-> -1, present_wait |-> -1,
     wait_result |-> "none", steps |-> << >>, outcome |-> "none"]

\* The handles HalState::new creates besides the per-image and per-slot ones.
SingleHandles ==
    {Handle(k, 0) : k \in {"instance", "device", "render_pass", "command_pool",
                               "descriptor_set_layout", "pipeline_layout",
                               "graphics_pipeline", "buffer", "memory"}}

\* The state a successful HalState::new leaves (renderer.rs:54-257) on a
\* surface whose negotiation gave the configuration cfg.
NewHal(cfg) ==
    [current_frame              |-> 0,
     frames_in_flight           |-> cfg.image_count,
     in_flight_fences           |-> SeqOf("fence", cfg.image_count),
     render_finished_semaphores |-> SeqOf("render_finished", cfg.image_count),
     image_available_semaphores |-> SeqOf("image_available", cfg.image_count),
     command_buffers            |-> SeqOf("command_buffer", cfg.image_count),
     framebuffers               |-> SeqOf("framebuffer", cfg.image_count),
     image_views                |-> SeqOf("image_view", cfg.image_count),
     descriptor_set_layouts     |-> SeqOf("descriptor_set_layout", 1),
     render_area                |-> cfg.extent,
     swapchain                  |-> Handle("swapchain", 0)]

\* A backend whose fences start unsignaled (create_fence(false)).
NewGpu_FencesUnsignaled(cfg) ==
    [fence           |-> Ring(cfg.image_count, FALSE),
     image_available |-> Ring(cfg.image_count, FALSE),
     render_finished |-> Ring(cfg.image_count, FALSE),
     images          |-> Ring(cfg.image_count, "free"),
     queue           |-> {},
     presents        |-> {}]

\* The backend after HalState::new: every fence created signaled
\* (create_fence(true)), no semaphore signaled, every image of the chain
\* free, nothing submitted.
NewGpu(cfg) ==
    [fence           |-> Ring(cfg.image_count, TRUE),
     image_available |-> Ring(cfg.image_count, FALSE),
     render_finished |-> Ring(cfg.image_count, FALSE),
     images          |-> Ring(cfg.image_count, "free"),
     queue           |-> {},
     presents        |-> {}]

\* renderer.rs:99-115: each turn of the loop creates the fence, the
\* image-available semaphore and the render-finished semaphore of one slot.
RECURSIVE SyncRingOrder(_)
SyncRingOrder(n) ==
    IF n = 0 THEN <<>>
    ELSE SyncRingOrder(n - 1)
         \o <<Handle("fence", n - 1), Handle("image_available", n - 1),
              Handle("render_finished", n - 1)>>

\* renderer.rs:673-682: the vertex and the fragment shader module.
ShaderModules == <<Handle("shader_module", 0), Handle("shader_module", 1)>>

\* The sub-steps of create_pipeline that create a handle, in their order
\* (renderer.rs:673-682, 776-814).
PipelineSteps ==
    <<"Couldn't make the vertex module", "Couldn't make the fragment module",
      "Couldn't make a DescriptorSetLayout", "Couldn't create a pipeline layout",
      "Couldn't create a graphics pipeline!">>

\* The handle each sub-step of create_pipeline creates.
PipelineHandles ==
    ShaderModules \o <<Handle("descriptor_set_layout", 0),
                       Handle("pipeline_layout", 0), Handle("graphics_pipeline", 0)>>

\* HalState::create_pipeline (renderer.rs:639-825) when sub-step number
\* fails_at returns Err (0: none does).  Every sub-step is followed by `?`,
\* which returns at once; the shader modules are destroyed only on the way
\* to Ok (819-822).  The result tells which handles are left live and which
\* were destroyed.
create_pipeline(fails_at) ==
    IF fails_at = 0
    THEN [ok |-> TRUE, error |-> NONE,
          live |-> SubSeq(PipelineHandles, 3, 5), destroyed |-> Range(ShaderModules)]
    ELSE [ok |-> FALSE, error |-> PipelineSteps[fails_at],
          live |-> SubSeq(PipelineHandles, 1, fails_at - 1), destroyed |-> {}]

\* The handles HalState::new creates and keeps, in the order it creates them
\* (renderer.rs:55-230).
CreationOrder(cfg) ==
    <<Handle("instance", 0), Handle("device", 0), Handle("swapchain", 0)>>
    \o SyncRingOrder(cfg.image_count)
    \o <<Handle("render_pass", 0)>>
    \o SeqOf("image_view", cfg.image_count)
    \o SeqOf("framebuffer", cfg.image_count)
    \o <<Handle("command_pool", 0)>>
    \o create_pipeline(0).live
    \o <<Handle("buffer", 0), Handle("memory", 0)>>

NewRes(cfg) ==
    [live  |-> SingleHandles
                 \cup {Handle("swapchain", 0)}
                 \cup HandlesOf("fence", cfg.image_count)
                 \cup HandlesOf("image_available", cfg.image_count)
                 \cup HandlesOf("render_finished", cfg.image_count)
                 \cup HandlesOf("image_view", cfg.image_count)
                 \cup HandlesOf("framebuffer", cfg.image_count),
     freed |-> Range(ShaderModules),
     twice |-> {},
     order |-> CreationOrder(cfg)]

\* The render loop starts after HalState::new(...).unwrap() succeeded
\* (main.rs:14) with at least one image.
Init ==
    /\ surface \in LoopSurfaces
    /\ create_swapchain(surface).ok
    /\ swap_result = create_swapchain(surface)
    /\ hal = NewHal(swap_result)
    /\ gpu = NewGpu(swap_result)
    /\ res = NewRes(swap_result)
    /\ pc = "poll"
    /\ frame = NoFrame
    /\ errors = 0
    /\ variant \in {"triangle", "clear"}
    /\ inputs = NoInputs

\* ------------------------------------------------------------ the main loop

\* main.rs:23-26: the poll reports end_requested; main leaves the loop and
\* hal_state goes out of scope, which runs Drop for HalState.
MainLoopBreak ==
    /\ pc = "poll"
    /\ \E i \in UserInputs : i.end_requested /\ inputs' = Polled(i)
    /\ pc' = "drop"
    /\ UNCHANGED <<surface, swap_result, hal, gpu, res, frame, errors, variant>>

\* main.rs:30-33: the poll reports a new frame size and no close request;
\* main calls recreate_swapchain, which starts by waiting for the device to
\* be idle, and continues with the next iteration.
MainLoopResize ==
    /\ pc = "poll"
    /\ \E i \in UserInputs :
        ~i.end_requested /\ i.new_frame_size /\ inputs' = Polled(i)
    /\ pc' = "recreate"
    /\ UNCHANGED <<surface, swap_result, hal, gpu, res, frame, errors, variant>>

\* A draw call that advances the rotation counter by two slots.
MainLoopRender_AdvanceByTwo ==
    /\ pc = "poll"
    /\ frame' = [NoFrame EXCEPT !.image_available = hal.current_frame,
                                !.render_finished = hal.current_frame]
    /\ hal' = [hal EXCEPT !.current_frame = (hal.current_frame + 2) % hal.frames_in_flight]
    /\ \E i \in UserInputs :
        ~i.end_requested /\ ~i.new_frame_size /\ inputs' = Polled(i)
    /\ pc' = "acquire"
    /\ UNCHANGED <<surface, swap_result, gpu, res, errors, variant>>

\* main.rs:35 and renderer.rs:265-267 / 557-559: the poll reports neither a
\* close request nor a new frame size; main calls the draw, which
\* takes the semaphores of the current slot and advances the rotation
\* counter before it acquires an image.
MainLoopRender ==
    /\ pc = "poll"
    /\ frame' = [NoFrame EXCEPT !.image_available = hal.current_frame,
                                !.render_finished = hal.current_frame]
    /\ hal' = [hal EXCEPT !.current_frame = (hal.current_frame + 1) % hal.frames_in_flight]
    /\ \E i \in UserInputs :
        ~i.end_requested /\ ~i.new_frame_size /\ inputs' = Polled(i)
    /\ pc' = "acquire"
    /\ UNCHANGED <<surface, swap_result, gpu, res, errors, variant>>

\* main.rs:35-38: the draw call has returned; an Err is logged and the loop
\* goes on to the next poll either way.
MainLoopContinue ==
    /\ pc = "returned"
    /\ frame' = NoFrame
    /\ inputs' = NoInputs
    /\ pc' = "poll"
    /\ UNCHANGED <<surface, swap_result, hal, gpu, res, errors, variant>>

\* ------------------------------------------------------------ a draw call

\* The semaphore acquire_image is asked to signal: draw_clear_frame passes
\* the image_available it took before the counter advanced (renderer.rs:272),
\* draw_triangle_frame indexes image_available_semaphores with current_frame
\* again, after the advance (renderer.rs:566).
AcquireSignalIndex ==
    IF variant = "triangle" THEN hal.current_frame ELSE frame.image_available

\* The semaphore the submission waits on (renderer.rs:303-304, 619-620).
SubmitWaitIndex == frame.image_available

\* The semaphore the submission signals and the present waits on
\* (renderer.rs:305-306, 621-622).
RenderFinishedIndex == frame.render_finished

\* A fence picked by the rotation slot instead of the acquired image.
FlightFenceIndex_BySlot == frame.image_available

\* in_flight_fences[i_usize] (renderer.rs:278, 573).
FlightFenceIndex == frame.image

\* command_buffers[i_usize] (renderer.rs:290, 302, 597, 618).
CommandBufferIndex == frame.image

\* framebuffers[i_usize] (renderer.rs:295, 604).
FramebufferIndex == frame.image

\* swapchain.acquire_image(u64::MAX, Some(semaphore), None) returns: some
\* image of the chain is free; the presentation engine may hand out any free
\* image.  The semaphore is signaled.  The index is then used on
\* in_flight_fences, which panics when it is out of bounds.
AcquireImage ==
    /\ pc = "acquire"
    /\ \E i \in DOMAIN gpu.images :
        /\ gpu.images[i] = "free"
        /\ gpu' = [gpu EXCEPT !.images[i] = "acquired",
                              !.image_available[AcquireSignalIndex] = TRUE]
        /\ frame' = [frame EXCEPT !.acquire_signal = AcquireSignalIndex, !.image = i,
                                  !.steps = <<"acquire_image">>,
                                  !.outcome = IF i < Len(hal.in_flight_fences)
                                              THEN "none" ELSE "panic: index out of bounds"]
        /\ pc' = IF i < Len(hal.in_flight_fences) THEN "fence" ELSE "unwind"
    /\ UNCHANGED <<surface, swap_result, hal, res, errors, variant, inputs>>

\* acquire_image returns an error (the chain is out of date, the surface is
\* lost, ...): the .unwrap() panics (renderer.rs:273, 569).
AcquireImageFails ==
    /\ pc = "acquire"
    /\ frame' = [frame EXCEPT !.outcome = "panic: acquire_image"]
    /\ pc' = "unwind"
    /\ UNCHANGED <<surface, swap_result, hal, gpu, res, errors, variant, inputs>>

\* wait_for_fence returns an error: the draw call returns Err
\* (renderer.rs:280-282, 575-577) and main goes on (main.rs:35-38).
FenceWaitFails ==
    /\ pc = "fence"
    /\ errors < MaxErrors
    /\ errors' = errors + 1
    /\ frame' = [frame EXCEPT !.fence_wait = FlightFenceIndex,
                              !.wait_result = "Err",
                              !.steps = @ \o <<"wait_for_fence">>,
                              !.outcome = "Err: Failed to wait on the fence!"]
    /\ pc' = "returned"
    /\ UNCHANGED <<surface, swap_result, hal, gpu, res, variant, inputs>>

\* wait_for_fence returns once the fence is signaled; reset_fence returns an
\* error: the draw call returns Err (renderer.rs:283-285, 578-580).
FenceResetFails ==
    /\ pc = "fence"
    /\ errors < MaxErrors
    /\ errors' = errors + 1
    /\ gpu.fence[FlightFenceIndex]
    /\ frame' = [frame EXCEPT !.fence_wait = FlightFenceIndex,
                              !.wait_result = "Ok(true)",
                              !.steps = @ \o <<"wait_for_fence", "reset_fence">>,
                              !.outcome = "Err: Couldn't reset the fence!"]
    /\ pc' = "returned"
    /\ UNCHANGED <<surface, swap_result, hal, gpu, res, variant, inputs>>

\* draw_triangle_frame only: the fence is waited on and reset, then
\* acquiring or releasing the mapping writer fails and the draw call returns
\* Err (renderer.rs:583-593).
VertexUploadFails ==
    /\ pc = "fence"
    /\ errors < MaxErrors
    /\ errors' = errors + 1
    /\ variant = "triangle"
    /\ gpu.fence[FlightFenceIndex]
    /\ gpu' = [gpu EXCEPT !.fence[FlightFenceIndex] = FALSE]
    /\ \E msg \in {"Err: Failed to acquire a memory writer!",
                   "Err: Couldn't release the mapping writer!"} :
        frame' = [frame EXCEPT !.fence_wait = FlightFenceIndex,
                               !.fence_reset = FlightFenceIndex,
                               !.wait_result = "Ok(true)",
                               !.steps = @ \o <<"wait_for_fence", "reset_fence">>
                                           \o (IF msg = "Err: Couldn't release the mapping writer!"
                                               THEN <<"write_vertices">> ELSE << >>),
                               !.outcome = msg]
    /\ pc' = "returned"
    /\ UNCHANGED <<surface, swap_result, hal, res, variant, inputs>>

\* draw_triangle_frame copies the triangle's points into the mapped vertex
\* memory (renderer.rs:583-593); draw_clear_frame has no upload.
UploadSteps == IF variant = "triangle" THEN <<"write_vertices">> ELSE << >>

\* The commands recorded into the command buffer of the image
\* (renderer.rs:289-299, 596-616).
RecordSteps ==
    IF variant = "triangle"
    THEN <<"begin", "begin_render_pass_inline(clear)", "bind_graphics_pipeline",
           "bind_vertex_buffers", "draw(0..3, 0..1)", "finish">>
    ELSE <<"begin", "begin_render_pass_inline(clear)", "finish">>

\* A draw call that presents before it submits.
QueueSteps_PresentFirst == <<"present", "submit">>

\* The calls on the queue (renderer.rs:314-318, 629-635).
QueueSteps == <<"submit", "present">>

\* The submission of renderer.rs:307-314 / 623-630.
Submission ==
    [command_buffer |-> CommandBufferIndex, wait |-> SubmitWaitIndex,
     signal |-> RenderFinishedIndex, fence |-> FlightFenceIndex]

\* The rest of a draw call once wait_for_fence has returned Ok(waited) and
\* reset_fence Ok: upload (the triangle), record the command buffer of the
\* image, submit it with the fence, present.  The bool that wait_for_fence
\* returns is dropped by map_err(..)? (renderer.rs:279-282, 574-577), so the
\* call goes on in the same way after Ok(false).  Indexing command_buffers or
\* framebuffers out of bounds panics after the fence was reset.  A present
\* that the presentation engine rejects (the chain is out of date, the
\* surface is lost) is still enqueued: its semaphore wait executes and the
\* image goes back to the engine; the draw call returns Err after the
\* submission.  `failed` is the number of failures the backend has reported
\* to this call so far.
AfterFenceWait(waited, failed) ==
    LET inBounds == /\ CommandBufferIndex < Len(hal.command_buffers)
                    /\ FramebufferIndex < Len(hal.framebuffers)
        recorded == [frame EXCEPT !.fence_wait = FlightFenceIndex,
                                  !.fence_reset = FlightFenceIndex,
                                  !.wait_result = waited,
                                  !.steps = @ \o <<"wait_for_fence", "reset_fence">>
                                              \o UploadSteps,
                                  !.command_buffer = CommandBufferIndex,
                                  !.framebuffer = FramebufferIndex]
        presented == [recorded EXCEPT !.steps = @ \o RecordSteps \o QueueSteps,
                                      !.submit_wait = SubmitWaitIndex,
                                      !.submit_signal = RenderFinishedIndex,
                                      !.submit_fence = FlightFenceIndex,
                                      !.present_image = frame.image,
                                      !.present_wait = RenderFinishedIndex]
    IN  IF ~inBounds
        THEN /\ gpu' = [gpu EXCEPT !.fence[FlightFenceIndex] = FALSE]
             /\ frame' = [recorded EXCEPT !.outcome = "panic: index out of bounds"]
             /\ errors' = errors + failed
             /\ pc' = "unwind"
        ELSE /\ gpu' = [gpu EXCEPT
                          !.fence[FlightFenceIndex] = FALSE,
                          !.queue = @ \cup {Submission},
                          !.images[frame.image] = "queued",
                          !.presents = @ \cup {[image |-> frame.image,
                                                wait |-> RenderFinishedIndex]}]
             /\ \E ok \in {p \in BOOLEAN : p \/ (failed = 0 /\ errors < MaxErrors)} :
                 /\ errors' = IF ok THEN errors + failed ELSE errors + 1
                 /\ frame' = [presented EXCEPT !.outcome =
                                 IF ok THEN "Ok"
                                 ELSE "Err: Failed to present into the swapchain!"]
             /\ pc' = "returned"

\* The rest of a draw call whose fence wait returns Ok(true), the fence being
\* signaled.
RecordSubmitPresent ==
    /\ pc = "fence"
    /\ gpu.fence[FlightFenceIndex]
    /\ AfterFenceWait("Ok(true)", 0)
    /\ UNCHANGED <<surface, swap_result, hal, res, variant, inputs>>

\* wait_for_fence gives up before the fence is signaled and returns
\* Ok(false); the draw call goes on as after Ok(true).
FenceWaitTimesOut ==
    /\ pc = "fence"
    /\ errors < MaxErrors
    /\ ~gpu.fence[FlightFenceIndex]
    /\ AfterFenceWait("Ok(false)", 1)
    /\ UNCHANGED <<surface, swap_result, hal, res, variant, inputs>>

\* ------------------------------------- the queue and the presentation engine

\* The process has not exited.
Running == pc \notin {"done", "aborted"}

\* The queue executes a submission whose wait semaphore is signaled: the
\* wait consumes the signal, then the render-finished semaphore and the
\* fence are signaled.
GpuExecute ==
    /\ Running
    /\ \E sub \in gpu.queue :
        /\ gpu.image_available[sub.wait]
        /\ gpu' = [gpu EXCEPT !.image_available[sub.wait] = FALSE,
                              !.render_finished[sub.signal] = TRUE,
                              !.fence[sub.fence] = TRUE,
                              !.queue = @ \ {sub}]
    /\ UNCHANGED <<surface, swap_result, hal, res, pc, frame, errors, variant, inputs>>

\* The presentation engine presents a queued image whose wait semaphore is
\* signaled and releases it.
PresentImage ==
    /\ Running
    /\ \E p \in gpu.presents :
        /\ gpu.render_finished[p.wait]
        /\ gpu' = [gpu EXCEPT !.render_finished[p.wait] = FALSE,
                              !.images[p.image] = "free",
                              !.presents = @ \ {p}]
    /\ UNCHANGED <<surface, swap_result, hal, res, pc, frame, errors, variant, inputs>>

\* ------------------------------------------------------ recreate_swapchain

\* A teardown that does not wait for the device at all.
DeviceIdle_NoWait == TRUE

\* device.wait_idle() returns: every queue operation, submission or present,
\* has completed.
DeviceIdle == gpu.queue = {} /\ gpu.presents = {}

\* renderer.rs:427-435: the command pool is reset, the framebuffers and the
\* image views are drained and destroyed.
DrainTargets(h) == [h EXCEPT !.framebuffers = <<>>, !.image_views = <<>>]

\* The handles the drains destroy, in the order they destroy them.
DrainOrder(h) == h.framebuffers \o h.image_views

TargetHandles(h) == Range(DrainOrder(h))

\* The handle of the chain created while the current one is still alive.
NextSwapchain == Handle("swapchain", 1 - hal.swapchain[2])

\* The backend once device.create_swapchain has made a chain of n images:
\* the old chain is retired, with its images and its pending presents.
NewChain(g, n) ==
    [g EXCEPT !.images = Ring(n, "free"), !.presents = {}]

\* A recreation that also starts the rotation over.
RecreatedHal_CounterReset(h, cfg, views, framebuffers) ==
    [h EXCEPT !.swapchain = NextSwapchain,
              !.image_views = views,
              !.framebuffers = framebuffers,
              !.current_frame = 0,
              !.render_area = cfg.extent]

\* A recreation that takes render_area from the surface's maximum extent
\* instead of the extent create_swapchain returned.
RecreatedHal_AreaFromMaximum(h, cfg, views, framebuffers) ==
    [h EXCEPT !.swapchain = NextSwapchain,
              !.image_views = views,
              !.framebuffers = framebuffers,
              !.render_area = surface.extents.end]

\* renderer.rs:436-492: what recreate_swapchain assigns when every step
\* succeeds.  The frame count that create_swapchain returns is dropped
\* (_frames_in_flight); command_buffers, the fences and the semaphores are
\* not touched.
RecreatedHal(h, cfg, views, framebuffers) ==
    [h EXCEPT !.swapchain = NextSwapchain,
              !.image_views = views,
              !.framebuffers = framebuffers,
              !.render_area = cfg.extent]

\* recreate_swapchain, every step succeeding (renderer.rs:425-493), on
\* whatever the surface reports by now.  The old chain is moved into
\* device.create_swapchain, which consumes it.
RecreateSwapchainOn(s) ==
    /\ pc = "recreate"
    /\ DeviceIdle
    /\ surface' = s
    /\ LET cfg == create_swapchain(surface')
           views == SeqOf("image_view", cfg.image_count)
           framebuffers == SeqOf("framebuffer", cfg.image_count)
       IN  /\ cfg.ok
           /\ swap_result' = cfg
           /\ res' = Create(Destroy(Destroy(res, TargetHandles(hal)), {hal.swapchain}),
                            <<NextSwapchain>> \o views \o framebuffers)
           /\ hal' = RecreatedHal(DrainTargets(hal), cfg, views, framebuffers)
           /\ gpu' = NewChain(gpu, cfg.image_count)
    /\ inputs' = NoInputs
    /\ pc' = "poll"
    /\ UNCHANGED <<frame, errors, variant>>

RecreateSwapchain == \E s \in LoopSurfaces : RecreateSwapchainOn(s)

\* recreate_swapchain when create_swapchain panics (an .unwrap() of
\* renderer.rs:341-421).  The targets are already destroyed.  self.swapchain
\* was read out bitwise (renderer.rs:438) and still names the old chain; the
\* old chain itself was consumed only if the panic is the device call's.
RecreateSwapchainPanics ==
    /\ pc = "recreate"
    /\ DeviceIdle
    /\ surface' \in LoopSurfaces
    /\ LET out == create_swapchain(surface')
           drained == Destroy(res, TargetHandles(hal))
       IN  /\ ~out.ok
           /\ swap_result' = out
           /\ res' = IF out.at_device THEN Destroy(drained, {hal.swapchain}) ELSE drained
           /\ hal' = DrainTargets(hal)
    /\ pc' = "unwind"
    /\ UNCHANGED <<gpu, frame, errors, variant, inputs>>

\* The messages of a failed image view and of a failed framebuffer
\* (renderer.rs:163, 181, 466, 486).
ImageViewFailed == "Couldn't create the image_view for the image!"

FramebufferFailed == "Failed to create a framebuffer!"

\* recreate_swapchain when creating image view k or framebuffer k fails
\* (renderer.rs:451-490): collect() stops at the first Err and drops the
\* handles made so far without destroying them, then .unwrap() panics.  When
\* it is a framebuffer, every image view exists and is stored in the state.
RecreateTargetsPanic ==
    /\ pc = "recreate"
    /\ DeviceIdle
    /\ surface' \in LoopSurfaces
    /\ LET cfg == create_swapchain(surface')
           views == SeqOf("image_view", cfg.image_count)
           drained == Destroy(Destroy(res, TargetHandles(hal)), {hal.swapchain})
       IN  /\ cfg.ok
           /\ swap_result' = cfg
           /\ gpu' = NewChain(gpu, cfg.image_count)
           /\ \E k \in 1..cfg.image_count :
                \/ /\ res' = Create(drained, <<NextSwapchain>>
                                             \o SeqOf("image_view", k - 1))
                   /\ hal' = [DrainTargets(hal) EXCEPT !.swapchain = NextSwapchain]
                   /\ frame' = [frame EXCEPT !.outcome = ImageViewFailed]
                \/ /\ res' = Create(drained, <<NextSwapchain>> \o views
                                             \o SeqOf("framebuffer", k - 1))
                   /\ hal' = [DrainTargets(hal) EXCEPT !.swapchain = NextSwapchain,
                                                       !.image_views = views]
                   /\ frame' = [frame EXCEPT !.outcome = FramebufferFailed]
    /\ pc' = "unwind"
    /\ UNCHANGED <<errors, variant, inputs>>

\* ---------------------------------------------------------- Drop for HalState

\* The backend once the device is destroyed: no fence, semaphore or image
\* is left.
NoGpu ==
    [fence |-> <<>>, image_available |-> <<>>, render_finished |-> <<>>,
     images |-> <<>>, queue |-> {}, presents |-> {}]

\* The handles Drop destroys, in the order it destroys them
\* (renderer.rs:502-539).
DropOrder(h) ==
    h.descriptor_set_layouts
    \o h.in_flight_fences
    \o h.render_finished_semaphores
    \o h.image_available_semaphores
    \o h.framebuffers
    \o h.image_views
    \o <<Handle("buffer", 0), Handle("memory", 0), Handle("pipeline_layout", 0),
         Handle("graphics_pipeline", 0), Handle("command_pool", 0),
         Handle("render_pass", 0), h.swapchain,
         Handle("device", 0), Handle("instance", 0)>>

\* renderer.rs:499-541: after wait_idle, every Vec is drained and destroyed
\* and every single handle is read out and destroyed, the swap chain through
\* self.swapchain.  Drop runs when main returns and when a panic unwinds.
DropHalState ==
    /\ pc \in {"drop", "unwind"}
    /\ DeviceIdle
    /\ res' = Destroy(res, Range(DropOrder(hal)))
    /\ hal' = [hal EXCEPT !.descriptor_set_layouts = <<>>,
                          !.in_flight_fences = <<>>,
                          !.render_finished_semaphores = <<>>,
                          !.image_available_semaphores = <<>>,
                          !.framebuffers = <<>>,
                          !.image_views = <<>>]
    /\ gpu' = NoGpu
    /\ pc' = IF pc = "drop" THEN "done" ELSE "aborted"
    /\ UNCHANGED <<surface, swap_result, frame, errors, variant, inputs>>

\* ------------------------------------------------------------ specification

Next ==
    \/ MainLoopBreak
    \/ MainLoopResize
    \/ MainLoopRender
    \/ MainLoopContinue
    \/ AcquireImage
    \/ AcquireImageFails
    \/ FenceWaitFails
    \/ FenceResetFails
    \/ VertexUploadFails
    \/ RecordSubmitPresent
    \/ FenceWaitTimesOut
    \/ GpuExecute
    \/ PresentImage
    \/ RecreateSwapchain
    \/ RecreateSwapchainPanics
    \/ RecreateTargetsPanic
    \/ DropHalState

Spec == Init /\ [][Next]_vars

\* ------------------------------------- specification: from HalState::new on

NoRes == [live |-> {}, freed |-> {}, twice |-> {}, order |-> <<>>]

\* main before HalState::new (main.rs:13-14).
InitNew ==
    /\ surface \in LoopSurfaces
    /\ swap_result = NoResult
    /\ hal = NoHal
    /\ gpu = NoGpu
    /\ res = NoRes
    /\ pc = "new"
    /\ frame = NoFrame
    /\ errors = 0
    /\ variant \in {"triangle", "clear"}
    /\ inputs = NoInputs

\* HalState::new returns Ok (renderer.rs:54-257) and main enters the loop.
HalStateNew ==
    /\ pc = "new"
    /\ LET cfg == create_swapchain(surface)
       IN  /\ cfg.ok
           /\ swap_result' = cfg
           /\ hal' = NewHal(cfg)
           /\ gpu' = NewGpu(cfg)
           /\ res' = NewRes(cfg)
    /\ pc' = "poll"
    /\ UNCHANGED <<surface, frame, errors, variant, inputs>>

\* What a HalState::new that does not return Ok leaves behind: the handles
\* in `leaked` were created and are held by locals that are dropped without
\* being destroyed; the device and the instance are destroyed by their own
\* drop.  The unwrap of main.rs:14 (or a panic inside new) ends the program.
NewFailed(leaked, destroyed) ==
    [live  |-> Range(leaked),
     freed |-> destroyed \cup {Handle("device", 0), Handle("instance", 0)},
     twice |-> {},
     order |-> leaked]

\* What new has created before the image views (renderer.rs:92-146).
BeforeTargets(cfg) ==
    <<Handle("swapchain", 0)>> \o SyncRingOrder(cfg.image_count)
    \o <<Handle("render_pass", 0)>>

\* create_swapchain panics inside HalState::new (renderer.rs:92-93).
HalStateNewPanics ==
    /\ pc = "new"
    /\ LET out == create_swapchain(surface)
       IN  /\ ~out.ok
           /\ swap_result' = out
           /\ res' = NewFailed(<<>>, {})
    /\ pc' = "aborted"
    /\ UNCHANGED <<surface, hal, gpu, frame, errors, variant, inputs>>

\* Creating image view k or framebuffer k fails inside HalState::new
\* (renderer.rs:148-184): collect() stops at the first Err and drops the
\* handles made so far, and `?` returns the Err.
HalStateNewTargetsFail ==
    /\ pc = "new"
    /\ LET cfg == create_swapchain(surface)
           views == SeqOf("image_view", cfg.image_count)
       IN  /\ cfg.ok
           /\ swap_result' = cfg
           /\ \E k \in 1..cfg.image_count :
                \/ /\ res' = NewFailed(BeforeTargets(cfg)
                                       \o SeqOf("image_view", k - 1), {})
                   /\ frame' = [frame EXCEPT !.outcome = ImageViewFailed]
                \/ /\ res' = NewFailed(BeforeTargets(cfg) \o views
                                       \o SeqOf("framebuffer", k - 1), {})
                   /\ frame' = [frame EXCEPT !.outcome = FramebufferFailed]
    /\ pc' = "aborted"
    /\ UNCHANGED <<surface, hal, gpu, errors, variant, inputs>>

\* A sub-step of create_pipeline fails inside HalState::new
\* (renderer.rs:197-198).
HalStateNewPipelineFails ==
    /\ pc = "new"
    /\ LET cfg == create_swapchain(surface)
       IN  /\ cfg.ok
           /\ swap_result' = cfg
           /\ \E fails_at \in 1..Len(PipelineSteps) :
                LET out == create_pipeline(fails_at)
                IN  /\ res' = NewFailed(BeforeTargets(cfg)
                                        \o SeqOf("image_view", cfg.image_count)
                                        \o SeqOf("framebuffer", cfg.image_count)
                                        \o <<Handle("command_pool", 0)>> \o out.live,
                                        out.destroyed)
                    /\ frame' = [frame EXCEPT !.outcome = out.error]
    /\ pc' = "aborted"
    /\ UNCHANGED <<surface, hal, gpu, errors, variant, inputs>>

NextNew ==
    \/ HalStateNew
    \/ HalStateNewPanics
    \/ HalStateNewTargetsFail
    \/ HalStateNewPipelineFails
    \/ Next

SpecNew == InitNew /\ [][NextNew]_vars

\* ------------------- specification: creation, then resizes that change nothing

\* HalState::new has succeeded on any surface that gives a chain.
InitRoundTrip ==
    /\ surface \in Surfaces
    /\ create_swapchain(surface).ok
    /\ swap_result = create_swapchain(surface)
    /\ hal = NewHal(swap_result)
    /\ gpu = NewGpu(swap_result)
    /\ res = NewRes(swap_result)
    /\ pc = "poll"
    /\ frame = NoFrame
    /\ errors = 0
    /\ variant \in {"triangle", "clear"}
    /\ inputs = NoInputs

\* recreate_swapchain while the window and the surface report what they
\* reported to HalState::new.
RecreateUnchanged == RecreateSwapchainOn(surface)

NextRoundTrip ==
    \/ MainLoopResize
    \/ RecreateUnchanged

SpecRoundTrip == InitRoundTrip /\ [][NextRoundTrip]_vars

\* ------------------------------------------------------ claims: the draw call

\* The draw call has submitted its command buffer.
Submitted == frame.submit_wait # -1

\* C1, as stated: in every frame of either draw call the image-available
\* semaphore the submission waits on is the one this frame's acquire_image
\* was asked to signal.
C1_SubmitWaitsOnAcquiredSemaphore ==
    Submitted => frame.submit_wait = frame.acquire_signal

\* C2: the fence that is waited on, reset and armed by the submission, the
\* command buffer and the framebuffer are all the ones at the image index
\* acquire_image returned, whatever the rotation slot of the frame.
C2_IndexedByAcquiredImage ==
    /\ frame.fence_wait # -1 => frame.fence_wait = frame.image
    /\ frame.fence_reset # -1 => frame.fence_reset = frame.image
    /\ frame.command_buffer # -1 => frame.command_buffer = frame.image
    /\ frame.framebuffer # -1 => frame.framebuffer = frame.image
    /\ Submitted => /\ frame.submit_fence = frame.image
                    /\ \A sub \in gpu.queue : sub.fence = sub.command_buffer

\* C2 witness: a frame was submitted on an image that the presentation engine
\* returned out of rotation order, its index differing from the slot's.
C2_Witness ==
    /\ Submitted
    /\ frame.outcome = "Ok"
    /\ frame.image # frame.image_available
    /\ frame.submit_fence = frame.image
    /\ frame.command_buffer = frame.image

\* ------------------------------------------------- claims: recreate_swapchain

\* The render loop holds a constructed HalState and is not unwinding.
InLoop == pc \in {"poll", "acquire", "fence", "returned"}

\* C3, as stated: after HalState::new and after every recreate_swapchain the
\* numbers of image views, framebuffers and command buffers and
\* frames_in_flight all equal the image count of the current chain, so every
\* image index is valid for in_flight_fences, command_buffers and
\* framebuffers.
C3_LengthsEqualImageCount ==
    InLoop =>
        LET n == Cardinality(DOMAIN gpu.images)
        IN  /\ Len(hal.image_views) = n
            /\ Len(hal.framebuffers) = n
            /\ Len(hal.command_buffers) = n
            /\ hal.frames_in_flight = n
            /\ \A i \in DOMAIN gpu.images :
                /\ i < Len(hal.in_flight_fences)
                /\ i < Len(hal.command_buffers)
                /\ i < Len(hal.framebuffers)

\* No submission can execute and no queued image can be presented.
GpuQuiescent == ~ENABLED GpuExecute /\ ~ENABLED PresentImage

\* The draw call waits for something that no step of the queue or of the
\* presentation engine will ever provide: a free image in acquire_image, or
\* the signal of the image's fence in wait_for_fence.
DrawBlockedForever ==
    /\ GpuQuiescent
    /\ \/ pc = "acquire" /\ \A i \in DOMAIN gpu.images : gpu.images[i] # "free"
       \/ pc = "fence" /\ ~gpu.fence[frame.image]

\* C4, as stated: as long as no draw call has failed, with or without a
\* recreation before, no acquire_image and no fence wait of a draw call
\* blocks forever.
C4_NoDrawBlocksForever == errors = 0 => ~DrawBlockedForever

\* ------------------------------------------------------ claims: resources

\* C5, as stated: no handle is destroyed more than once, and once the
\* process has shut down every handle created has been destroyed.
C5_EachHandleDestroyedOnce ==
    /\ res.twice = {}
    /\ pc \in {"done", "aborted"} => res.live = {}

\* ------------------------------------------------------ claims: errors

\* C6, as stated: an acquire_image that reports an error does not abort the
\* program; the frame is skipped and the loop goes on.
C6_AcquireErrorSkipsFrame ==
    frame.outcome = "panic: acquire_image" => pc \in {"returned", "recreate"}

\* What a failing step of a frame leaves as the outcome of the draw call.
PerFrameFailures ==
    {"panic: acquire_image",
     "Err: Failed to wait on the fence!", "Err: Couldn't reset the fence!",
     "Err: Failed to acquire a memory writer!",
     "Err: Couldn't release the mapping writer!",
     "Err: Failed to present into the swapchain!"}

\* The outcomes that are an Err value returned to main.
ErrValues == {o \in PerFrameFailures : o # "panic: acquire_image"}

\* C7, as stated: a failure of acquisition, fence wait or reset, vertex
\* upload or presentation comes back to main as an Err value and the loop
\* goes on to the next poll.
C7_PerFrameFailureIsNotFatal ==
    frame.outcome \in PerFrameFailures =>
        /\ frame.outcome \in ErrValues
        /\ pc = "returned"

\* ------------------------------------------------------ claims: negotiation

Negotiated == pc = "negotiated" /\ swap_result.ok

\* x clamped into lo..hi.
Clamp(x, lo, hi) == IF x < lo THEN lo ELSE IF x > hi THEN hi ELSE x

RequestedImages == IF swap_result.present_mode = "Mailbox" THEN 3 ELSE 2

C9_ExtentWithinSupportedRange ==
    Negotiated =>
        LET lo == surface.extents.start
            hi == surface.extents.end
            e  == swap_result.extent
        IN  /\ lo.width <= e.width /\ e.width <= hi.width
            /\ lo.height <= e.height /\ e.height <= hi.height
            /\ lo = hi => e = lo

\* C10: for a non-empty set of supported present modes the negotiation does
\* not fail for want of a present mode, and the chosen mode is supported and
\* is the first supported one in the order Mailbox, Fifo, Relaxed, Immediate.
C10_PresentModeFirstSupported ==
    (pc = "negotiated" /\ surface.present_modes # {}) =>
        /\ swap_result.error # "No PresentMode values specified!"
        /\ swap_result.ok =>
            LET m  == swap_result.present_mode
                in == surface.present_modes
            IN  /\ m \in in
                /\ "Mailbox" \in in => m = "Mailbox"
                /\ ("Mailbox" \notin in /\ "Fifo" \in in) => m = "Fifo"
                /\ ({"Mailbox", "Fifo"} \cap in = {} /\ "Relaxed" \in in) => m = "Relaxed"
                /\ in = {"Immediate"} => m = "Immediate"

\* C10 witness: Mailbox and Fifo are both supported and Mailbox was chosen.
C10_Witness ==
    /\ Negotiated
    /\ {"Mailbox", "Fifo"} \subseteq surface.present_modes
    /\ swap_result.present_mode = "Mailbox"

\* C11: when the surface lists no formats (None) the chosen format is
\* Rgba8Srgb; when some listed format is sRGB the chosen one is the first
\* sRGB entry of the list; when the list is non-empty without an sRGB entry
\* it is the first entry.
C11_FormatChoice ==
    Negotiated =>
        LET pf == surface.preferred_formats
            l  == pf.list
            f  == swap_result.format
        IN  /\ ~pf.some => f = "Rgba8Srgb"
            /\ (pf.some /\ \E i \in 1..Len(l) : IsSrgb(l[i])) =>
                    \E i \in 1..Len(l) : /\ l[i] = f
                                         /\ IsSrgb(f)
                                         /\ \A j \in 1..(i - 1) : ~IsSrgb(l[j])
            /\ (pf.some /\ Len(l) > 0 /\ \A i \in 1..Len(l) : ~IsSrgb(l[i])) => f = l[1]

\* C11 witness: the list starts with a format that is not sRGB and the sRGB
\* entry after it was chosen.
C11_Witness ==
    /\ Negotiated
    /\ surface.preferred_formats.some
    /\ Len(surface.preferred_formats.list) = 2
    /\ ~IsSrgb(surface.preferred_formats.list[1])
    /\ swap_result.format = surface.preferred_formats.list[2]

\* The messages of the negotiation steps that can fail before the device is
\* asked for the chain (renderer.rs:347, 361, 375, 403).
NegotiationFailures ==
    {"No PresentMode values specified!", "No CompositeAlpha values specified!",
     "Preferred format list was empty!",
     "The Surface isn't capable of supporting color!"}

\* C12, as stated: a negotiation that finds no present mode, no composite
\* alpha, no format or no color-attachment usage is an error returned to the
\* caller; during a resize the renderer stays in the render loop, where the
\* recreation can be tried again.
C12_NegotiationFailureIsReturned ==
    swap_result.error \in NegotiationFailures =>
        pc \in {"poll", "recreate", "acquire", "fence", "returned"}

\* ------------------------------------------------------ claims: teardown order

\* The place of a live handle in the order of creation.
CreatedAt(h) == CHOOSE i \in 1..Len(res.order) : res.order[i] = h

\* The sequence of destructions d takes the live handles in the reverse of
\* the order of their creation: of two of them, the one created later is
\* destroyed first.
ReverseOfCreation(d) ==
    \A i, j \in 1..Len(d) :
        (i < j /\ d[i] \in res.live /\ d[j] \in res.live) =>
            CreatedAt(d[i]) > CreatedAt(d[j])

\* C13, as stated: Drop, and the replacement of the render targets in
\* recreate_swapchain, destroy the objects in the strict reverse of the order
\* of their creation.
C13_DestroyedInReverseCreationOrder ==
    [][/\ DropHalState => ReverseOfCreation(DropOrder(hal))
       /\ (RecreateSwapchain \/ RecreateSwapchainPanics \/ RecreateTargetsPanic)
            => ReverseOfCreation(DrainOrder(hal))]_vars

\* C14: a step that destroys a live handle (in recreate_swapchain or in Drop)
\* is taken only when the device is idle, no submission and no present being
\* pending, and it submits nothing itself.
C14_DestroyOnlyWhenIdle ==
    [][(res.live \ res'.live) # {} =>
            /\ gpu.queue = {} /\ gpu.presents = {}
            /\ gpu'.queue = {} /\ gpu'.presents = {}]_vars

\* C14 witness: after an earlier recreation has destroyed render targets,
\* recreate_swapchain is called again while a submission is still pending.
C14_Witness ==
    /\ pc = "recreate"
    /\ hal.swapchain = Handle("swapchain", 1)
    /\ gpu.queue # {}

\* ------------------------------------------------- claims: order of recreation

LiveOf(kind) == {h \in res.live : h[1] = kind}

\* What the states show of the order of recreate_swapchain's steps: when the
\* creation of the chain fails no framebuffer and no image view is left
\* (they were destroyed before); the chain in use was created before every
\* live image view and every image view before every live framebuffer; a
\* framebuffer exists only once every image view of the chain does; after a
\* recreation that succeeded render_area is the extent of the new chain.
RecreateStepOrder ==
    /\ (pc = "unwind" /\ ~swap_result.ok) =>
            LiveOf("framebuffer") \cup LiveOf("image_view") = {}
    /\ pc \notin {"done", "aborted"} =>
            /\ \A v \in LiveOf("image_view") :
                /\ hal.swapchain \in res.live
                /\ CreatedAt(hal.swapchain) < CreatedAt(v)
                /\ \A f \in LiveOf("framebuffer") : CreatedAt(v) < CreatedAt(f)
            /\ LiveOf("framebuffer") # {} =>
                    Cardinality(LiveOf("image_view")) = swap_result.image_count
    /\ (InLoop /\ swap_result.ok) => hal.render_area = swap_result.extent

\* As long as the renderer has not been dropped there is a live swap chain:
\* the previous chain is not destroyed before the new one exists.
PreviousChainOutlivesCreation ==
    pc \notin {"done", "aborted"} => LiveOf("swapchain") # {}

\* C15, as stated: recreate_swapchain waits, destroys the framebuffers and
\* the image views, creates the new chain from the current one, then the
\* image views, then the framebuffers, then sets render_area; the previous
\* chain is never destroyed before the new chain has been created.
C15_RecreateOrder == RecreateStepOrder /\ PreviousChainOutlivesCreation

\* ------------------------------------------------ claims: what recreation keeps

\* The kinds of handle recreate_swapchain may replace.
ReplacedKinds == {"swapchain", "image_view", "framebuffer"}

\* The handles of the other kinds, in the order of their creation.
KeptOrder(r) == SelectSeq(r.order, LAMBDA h : h[1] \notin ReplacedKinds)

\* C16: a call of recreate_swapchain leaves every field of HalState but
\* swapchain, image_views, framebuffers and render_area as it was (the
\* fences, the semaphores, frames_in_flight, the rotation counter), leaves
\* the state of every fence and semaphore as it was, and neither destroys nor
\* creates a handle of another kind (render pass, pipeline layout, pipeline,
\* buffer, memory, fences, semaphores).
C16_RecreateKeepsRingAndPipeline ==
    [][(RecreateSwapchain \/ RecreateSwapchainPanics \/ RecreateTargetsPanic) =>
            /\ \A field \in DOMAIN hal \ {"swapchain", "image_views",
                                          "framebuffers", "render_area"} :
                    hal'[field] = hal[field]
            /\ gpu'.fence = gpu.fence
            /\ gpu'.image_available = gpu.image_available
            /\ gpu'.render_finished = gpu.render_finished
            /\ KeptOrder(res') = KeptOrder(res)
            /\ \A h \in res'.twice \ res.twice : h[1] \in ReplacedKinds]_vars

\* C16 witness: after a recreation to a chain of another image count the
\* ring still has its old size, the rotation counter is not at its start and
\* a semaphore is still signaled.
C16_Witness ==
    /\ pc = "poll"
    /\ hal.swapchain = Handle("swapchain", 1)
    /\ Len(hal.image_views) # hal.frames_in_flight
    /\ hal.current_frame # 0
    /\ \E i \in DOMAIN gpu.image_available : gpu.image_available[i]

\* ------------------------------------------------------ claims: HalState::new

\* C17: when HalState::new returns, the ring holds frames_in_flight fences,
\* frames_in_flight image-available semaphores and frames_in_flight
\* render-finished semaphores, all of them live, and every fence is
\* signaled, so that a fence wait on any image index of the chain returns.
C17_RingAfterNew ==
    [][HalStateNew =>
        LET n == hal'.frames_in_flight
        IN  /\ n = swap_result'.image_count
            /\ Len(hal'.in_flight_fences) = n
            /\ Len(hal'.image_available_semaphores) = n
            /\ Len(hal'.render_finished_semaphores) = n
            /\ \A kind \in {"fence", "image_available", "render_finished"} :
                    Cardinality({h \in res'.live : h[1] = kind}) = n
            /\ DOMAIN gpu'.fence = 0..(n - 1)
            /\ \A i \in DOMAIN gpu'.images : i \in DOMAIN gpu'.fence /\ gpu'.fence[i]]_vars

\* C17 witness: on a ring of two or more slots the first draw call after
\* HalState::new has acquired the last image and finds its fence signaled.
C17_Witness ==
    /\ pc = "fence"
    /\ hal.swapchain = Handle("swapchain", 0)
    /\ hal.frames_in_flight > 1
    /\ frame.image = hal.frames_in_flight - 1
    /\ frame.image_available = 0
    /\ gpu.queue = {} /\ gpu.presents = {}
    /\ \A i \in DOMAIN gpu.fence : gpu.fence[i]

\* ------------------------------------------------ claims: failures of creation

\* C18, as stated: once the failure of an image view (of a framebuffer) is
\* reported, by HalState::new or by recreate_swapchain, no image view (no
\* framebuffer) created in that batch is live any more.
C18_FailedBatchIsReleased ==
    /\ frame.outcome = ImageViewFailed => LiveOf("image_view") = {}
    /\ frame.outcome = FramebufferFailed => LiveOf("framebuffer") = {}

\* C19, as stated: whatever create_pipeline returns, the pipeline or the
\* error of a sub-step, no shader module it created is left live.
C19_ShaderModulesDestroyed ==
    pc # "new" => LiveOf("shader_module") = {}

\* ------------------------------------------------------ claims: round trip

\* C20: a recreation on the window size and the surface capabilities of the
\* creation gives the extent and the image count of the creation, in what
\* create_swapchain returns, in render_area and in the number of images,
\* image views and framebuffers of the new chain.
C20_RecreateRoundTrip ==
    [][RecreateUnchanged =>
            /\ swap_result'.extent = swap_result.extent
            /\ swap_result'.image_count = swap_result.image_count
            /\ hal'.render_area = hal.render_area
            /\ DOMAIN gpu'.images = DOMAIN gpu.images
            /\ Len(hal'.image_views) = Len(hal.image_views)
            /\ Len(hal'.framebuffers) = Len(hal.framebuffers)]_vars

\* C20 witness: a chain of 3 images, whose extent the window and not the
\* surface decides, was recreated.
C20_Witness ==
    /\ pc = "poll"
    /\ hal.swapchain = Handle("swapchain", 1)
    /\ swap_result.image_count = 3
    /\ swap_result.extent.width < surface.extents.end.width
    /\ swap_result.extent.width = AsU32(surface.window.width)

\* ------------------------------------------------ claims: the rotation counter

\* C21: current_frame is always a slot of the ring; the start of a draw call
\* changes it to (current_frame + 1) mod frames_in_flight, whatever the call
\* returns later, and no other step changes it.
C21_RotationCounter ==
    /\ [](InLoop => (0 <= hal.current_frame /\ hal.current_frame < hal.frames_in_flight))
    /\ [][IF MainLoopRender
          THEN hal'.current_frame = (hal.current_frame + 1) % hal.frames_in_flight
          ELSE hal'.current_frame = hal.current_frame]_vars

\* C21 witness: on a ring of two or more slots a draw call has returned an
\* Err and the counter is one past the slot the call took.
C21_Witness ==
    /\ pc = "returned"
    /\ frame.outcome \in ErrValues
    /\ hal.frames_in_flight > 1
    /\ hal.current_frame = (frame.image_available + 1) % hal.frames_in_flight

\* C22: a fence wait that times out makes the draw call return an error that
\* is not the one returned when the wait fails (the device is lost), and the
\* call does not go on as after a completed wait: it neither resets the fence
\* nor submits.
C22_TimeoutIsADistinctError ==
    frame.wait_result = "Ok(false)" =>
        /\ frame.outcome \in ErrValues
        /\ frame.outcome # "Err: Failed to wait on the fence!"
        /\ frame.fence_reset = -1
        /\ frame.submit_fence = -1

\* C23: a draw call that returns Ok has made these calls once each and in
\* this order: acquire an image, wait on the fence of that image, reset it,
\* record the command buffer of that image (begin, render pass with clear,
\* for the triangle the pipeline bind and a draw of 3 vertices and 1
\* instance, finish), submit it with that fence, present the acquired image
\* waiting on the render-finished semaphore the submission signals.
C23_SuccessfulDrawSteps ==
    (pc = "returned" /\ frame.outcome = "Ok") =>
        /\ frame.steps =
              <<"acquire_image", "wait_for_fence", "reset_fence">>
              \o (IF variant = "triangle" THEN <<"write_vertices">> ELSE << >>)
              \o <<"begin", "begin_render_pass_inline(clear)">>
              \o (IF variant = "triangle"
                  THEN <<"bind_graphics_pipeline", "bind_vertex_buffers",
                         "draw(0..3, 0..1)">>
                  ELSE << >>)
              \o <<"finish", "submit", "present">>
        /\ frame.image \in DOMAIN gpu.images
        /\ frame.fence_wait = frame.image
        /\ frame.fence_reset = frame.image
        /\ frame.command_buffer = frame.image
        /\ frame.submit_fence = frame.image
        /\ frame.present_image = frame.image
        /\ frame.present_wait = frame.submit_signal

C23_Witness ==
    /\ pc = "returned"
    /\ frame.outcome = "Ok"
    /\ variant = "triangle"
    /\ frame.image = 1
    /\ frame.submit_signal = 0

\* The wait_idle at the start of Drop, reached from the loop's break, waits
\* for a submission or a present that no step of the queue or of the
\* presentation engine will ever complete.
ShutdownBlockedForever == pc = "drop" /\ ~DeviceIdle /\ GpuQuiescent

\* C24, as stated: an iteration whose poll reports a close request leaves
\* the loop without updating local_state, recreating or drawing; otherwise
\* one that reports a resize calls recreate_swapchain once and does not
\* draw; otherwise it draws once.  After the close request nothing is drawn
\* or recreated any more, and the shutdown of the renderer is not blocked.
C24_MainLoopIteration ==
    /\ [][(pc = "poll" /\ pc' # "poll") =>
            /\ inputs'.end_requested =>
                 pc' = "drop" /\ ~inputs'.updated /\ UNCHANGED <<hal, gpu, res, frame>>
            /\ (~inputs'.end_requested /\ inputs'.new_frame_size) =>
                 pc' = "recreate" /\ inputs'.updated /\ UNCHANGED <<gpu, frame>>
            /\ (~inputs'.end_requested /\ ~inputs'.new_frame_size) =>
                 pc' = "acquire" /\ inputs'.updated]_vars
    /\ [][pc = "recreate" => pc' \in {"recreate", "poll", "unwind"}]_vars
    /\ [][(pc \in {"acquire", "fence"})
            => (pc' \in {"acquire", "fence", "returned", "unwind"})]_vars
    /\ [][pc = "returned" => pc' \in {"returned", "poll"}]_vars
    /\ [][(pc \in {"drop", "done"}) => (pc' \in {"drop", "done"})]_vars
    /\ []~ShutdownBlockedForever

\* C27, as stated: once main has left the loop, after any number of draw
\* calls, the wait_idle at the start of Drop returns: the device is idle, or
\* the queue or the presentation engine can still take a step towards it,
\* the semaphore a submission waits on having been signaled by an acquisition.
C27_ShutdownCompletes ==
    pc = "drop" => (DeviceIdle \/ ~GpuQuiescent)

\* C25, as stated: in the step in which draw_triangle_frame maps and
\* overwrites the vertex memory, no earlier submission, of any image, is
\* still on the queue.
C25_VertexWriteAfterCompletion ==
    [][(pc = "fence" /\ "write_vertices" \in Range(frame'.steps)) =>
          gpu.queue = {}]_vars

\* C26, as stated: whenever a draw call has returned, with Ok or with Err,
\* every in-flight fence is signaled or is the fence of a submission that is
\* on the queue.
C26_NoFenceLeftReset ==
    pc = "returned" =>
        \A i \in DOMAIN gpu.fence :
            gpu.fence[i] \/ \E sub \in gpu.queue : sub.fence = i

\* C28, as stated: the semaphore an acquisition is asked to signal holds no
\* unconsumed signal and no submission on the queue waits on it, and the
\* semaphore a submission is queued to wait on holds a signal that has not
\* been consumed.
C28_BinarySemaphoreDiscipline ==
    [][/\ (pc = "acquire" /\ frame'.acquire_signal # -1) =>
            /\ ~gpu.image_available[frame'.acquire_signal]
            /\ \A sub \in gpu.queue : sub.wait # frame'.acquire_signal
       /\ (pc = "fence" /\ frame'.submit_wait # -1) =>
            gpu.image_available[frame'.submit_wait]]_vars

\* C29, as stated: a renderer built on any surface has frames_in_flight of at
\* least 1, so the rotation counter is advanced modulo a positive number and
\* current_frame is an index of the semaphore rings.
C29_RingIsNeverEmpty ==
    InLoop =>
        /\ hal.frames_in_flight >= 1
        /\ hal.current_frame < Len(hal.image_available_semaphores)
        /\ hal.current_frame < Len(hal.render_finished_semaphores)
====
